---- MODULE Spec2Model ----
(***************************************************************************)
(* A model of migrate.js: the migration loader (loadMigrations) and the    *)
(* runner (main), with the persisted version marker of the `__migrations`  *)
(* collection.                                                             *)
(*                                                                         *)
(* JavaScript values are modelled as follows.                              *)
(*   - an object is a function whose DOMAIN is its set of own keys, so a   *)
(*     missing key is a key outside the DOMAIN;                            *)
(*   - the value of the `version` option is a record [t, v]: t is the      *)
(*     JavaScript type ("null", "undefined", "number") and v the number;   *)
(*   - a unit name is a sequence of one-character strings;                 *)
(*   - a migration module is a record whose up / down fields say whether   *)
(*     the export is a function (what _.isFunction answers).               *)
(***************************************************************************)
EXTENDS Integers, Sequences, FiniteSets, TLC

\* ------------------------------------------------------------------------
\* Bounds of the model
\* ------------------------------------------------------------------------

\* largest number of units in the migrations directory
MaxUnits == 3

\* the `version` option ranges over MinVersion..MaxVersion
MaxVersion == 3

\* largest number of documents of a collection passed to updateCollection
MaxDocs == 5

\* the page size of updateCollection; `const chunkSize = 1000` in the
\* source, scaled down here with the collections (MaxDocs is two pages and
\* a half, as 2500 documents are for 1000)
chunkSize == 2

MinVersion == 0 - 1

\* ------------------------------------------------------------------------
\* The migrations directory: what requireDir can return
\* ------------------------------------------------------------------------

Digits == <<"0", "1", "2", "3", "4", "5", "6", "7", "8", "9">>

\* the units a migrations directory is drawn from: two names with the id 1,
\* a name with the id 0, a name without a leading digit and two modules
\* that lack a direction
Units ==
  { [name |-> <<"1", "-", "a">>,           up |-> TRUE,  down |-> TRUE],
    [name |-> <<"0", "0", "0", "1", "-", "b">>, up |-> TRUE,  down |-> TRUE],
    [name |-> <<"2", "-", "c">>,           up |-> TRUE,  down |-> TRUE],
    [name |-> <<"0", "3", "-", "d">>,      up |-> TRUE,  down |-> TRUE],
    [name |-> <<"0", "-", "z">>,           up |-> TRUE,  down |-> TRUE],
    [name |-> <<"x", "-", "e">>,           up |-> TRUE,  down |-> TRUE],
    [name |-> <<"4", "-", "f">>,           up |-> FALSE, down |-> TRUE],
    [name |-> <<"5", "-", "g">>,           up |-> TRUE,  down |-> FALSE] }

\* requireDir: the units of the directory in some enumeration order; the
\* keys of the returned object (the names) are pairwise distinct
Dirs ==
  UNION { { d \in [1..n -> Units] :
              \A i, j \in 1..n : i # j => d[i].name # d[j].name } :
          n \in 0..MaxUnits }

\* ------------------------------------------------------------------------
\* loadMigrations
\* ------------------------------------------------------------------------

IsDigit(c) == \E k \in 1..10 : Digits[k] = c

DigitValue(c) == (CHOOSE k \in 1..10 : Digits[k] = c) - 1

\* the capture group of /^([\d]+)/: the longest prefix of digits
RECURSIVE LeadingDigits(_)
LeadingDigits(name) ==
  IF name = <<>> \/ ~IsDigit(Head(name))
    THEN <<>>
    ELSE <<Head(name)>> \o LeadingDigits(Tail(name))

\* parseInt(id, 10) of a string of digits
RECURSIVE ParseInt(_)
ParseInt(digits) ==
  IF digits = <<>>
    THEN 0
    ELSE 10 * ParseInt(SubSeq(digits, 1, Len(digits) - 1))
           + DigitValue(digits[Len(digits)])

\* extractMigId: name.match(re) is null when the name has no leading digit,
\* and null[1] throws a TypeError; a match is a non-empty string, so the
\* `missing id` branch is never taken
extractMigId(name) ==
  IF LeadingDigits(name) = <<>>
    THEN [error |-> "TypeError", id |-> 0]
    ELSE [error |-> "none", id |-> ParseInt(LeadingDigits(name))]

\* a loader that forgets the sort: the units stay in enumeration order
SortById_unsorted(ms) == ms

\* _.sortBy(..., 'id'): a stable ascending sort
RECURSIVE InsertById(_, _)
InsertById(m, sorted) ==
  IF sorted = <<>>
    THEN <<m>>
    ELSE IF m.id < Head(sorted).id
           THEN <<m>> \o sorted
           ELSE <<Head(sorted)>> \o InsertById(m, Tail(sorted))

RECURSIVE SortById(_)
SortById(ms) ==
  IF ms = <<>>
    THEN <<>>
    ELSE InsertById(ms[Len(ms)], SortById(SubSeq(ms, 1, Len(ms) - 1)))

\* the iteratee of the map, applied to the units in enumeration order with
\* the idSet so far; the first throw ends the load
RECURSIVE MapUnits(_, _, _)
MapUnits(dir, idSet, acc) ==
  IF dir = <<>>
    THEN [error |-> "none", migrations |-> acc]
    ELSE LET unit == Head(dir)
             x    == extractMigId(unit.name)
         IN  IF x.error # "none"
               THEN [error |-> x.error, migrations |-> <<>>]
             ELSE IF x.id \in idSet
               THEN [error |-> "duplicate id", migrations |-> <<>>]
             ELSE IF ~unit.up
               THEN [error |-> "missing 'up' function", migrations |-> <<>>]
             ELSE IF ~unit.down
               THEN [error |-> "missing 'down' function", migrations |-> <<>>]
             ELSE MapUnits(Tail(dir), idSet \cup {x.id},
                           Append(acc, [name |-> unit.name, id |-> x.id]))

loadMigrations(dir) ==
  LET mapped == MapUnits(dir, {}, <<>>)
  IN  IF mapped.error # "none"
        THEN mapped
        ELSE [error |-> "none", migrations |-> SortById(mapped.migrations)]

\* every outcome of loadMigrations over the directories of the model
LoadResults == { loadMigrations(d) : d \in Dirs }

\* ------------------------------------------------------------------------
\* The options of main
\* ------------------------------------------------------------------------

Null == [t |-> "null", v |-> 0]

Undefined == [t |-> "undefined", v |-> 0]

Number(n) == [t |-> "number", v |-> n]

\* NaN, what parseInt gives for what is no number
NaN == [t |-> "NaN", v |-> 0]

DEFAULT_OPTS ==
  [func |-> "up", version |-> Null, host |-> Null, port |-> 27017,
   database |-> Null, dryRun |-> FALSE]

\* _.assign({}, DEFAULT_OPTS, opts): every own key of opts overrides the
\* default, whatever its value
Assign(defaults, o) ==
  [k \in DOMAIN defaults \cup DOMAIN o |->
     IF k \in DOMAIN o THEN o[k] ELSE defaults[k]]

\* _.get(object, key, defaultValue): the default replaces a missing key and
\* an undefined value, and nothing else (null is returned as it is)
Get(object, key, defaultValue) ==
  IF key \notin DOMAIN object \/ object[key] = Undefined
    THEN defaultValue
    ELSE object[key]

\* a > b of JavaScript for a number a: ToNumber(null) is 0, ToNumber of
\* undefined is NaN, and a comparison with NaN is false
JsGreater(a, b) ==
  CASE b.t = "number"    -> a > b.v
    [] b.t = "null"      -> a > 0
    [] b.t = "undefined" -> FALSE
    [] b.t = "NaN"       -> FALSE

\* what a caller passes for each option
FuncValues == {"up", "down", "sideways"}

VersionValues == {Null, Undefined} \cup {Number(n) : n \in MinVersion..MaxVersion}

\* the objects a caller passes to main: any subset of the three options
OptsInputs ==
  {[k \in {} |-> 0]}
    \cup [func : FuncValues]
    \cup [version : VersionValues]
    \cup [dryRun : BOOLEAN]
    \cup [func : FuncValues, version : VersionValues]
    \cup [func : FuncValues, dryRun : BOOLEAN]
    \cup [version : VersionValues, dryRun : BOOLEAN]
    \cup [func : FuncValues, version : VersionValues, dryRun : BOOLEAN]

\* ------------------------------------------------------------------------
\* The pending set
\* ------------------------------------------------------------------------

RECURSIVE Reverse(_)
Reverse(s) ==
  IF s = <<>> THEN <<>> ELSE Append(Reverse(Tail(s)), Head(s))

\* an `up` filter that lets the current version through (>= for >)
PendingUp_inclusive(all, migId) ==
  LET Test(m) == m.id >= migId
  IN  SelectSeq(all, Test)

\* the `up` branch: _.filter(allMigrations, m => m.id > migrationInfo.migId)
PendingUp(all, migId) ==
  LET Test(m) == m.id > migId
  IN  SelectSeq(all, Test)

\* the `down` branch: the filter on (requestedMigId, migId], then _.reverse
PendingDown(all, o, migId) ==
  LET requestedMigId == Get(o, "version", Number(migId))
      Test(m)        == JsGreater(m.id, requestedMigId) /\ m.id <= migId
  IN  Reverse(SelectSeq(all, Test))

\* ------------------------------------------------------------------------
\* The version marker
\* ------------------------------------------------------------------------

\* findOne({ _id: 'default' }): the set of the matching documents stands
\* for the document or null
findOne(collection) == { d \in collection : d._id = "default" }

\* a read that always starts from the default and ignores the marker
Defaults_ignoresMarker(found) == [migId |-> 0]

\* _.defaults(migrationInfo, { migId: 0 })
Defaults(found) ==
  IF found = {} THEN [migId |-> 0] ELSE [migId |-> (CHOOSE d \in found : TRUE).migId]

\* updateOne({ _id: 'default' }, { migId }, { upsert: true }): the document
\* replaces the marker, or is inserted when there is none
updateOne(collection, migId) ==
  { d \in collection : d._id # "default" }
    \cup { [_id |-> "default", migId |-> migId] }

\* ------------------------------------------------------------------------
\* State
\* ------------------------------------------------------------------------

VARIABLES
  requireDir,           \* the directory a load on its own reads (SpecLoad)
  migrationCollection,  \* the documents of the `__migrations` collection
  pc,                   \* the position of main
  opts,                 \* _opts
  allMigrations,        \* what loadMigrations returned
  migrationInfo,        \* the marker read, with the default migId
  pendingMigrations,    \* the pending set
  idx,                  \* the position of the loop in pendingMigrations
  error,                \* the failure main rejects with, "none" otherwise
  connects,             \* connections this run has opened
  closes,               \* calls of db.close() of this run
  ledger0,              \* the collection when this run began
  calls,                \* the transforms this run has invoked, in order
  done,                 \* how many of them have completed
  writes,               \* the migIds this run has written, in order
  prev,                 \* what the previous run did
  args,                 \* what docopt returned, for a run of the command line
  applied,              \* the ids whose `up` transform has completed in
                        \* some run (SpecApplied)
  \* one call of updateCollection (SpecUpdate)
  col,                  \* the documents of the collection, in natural order
  updater,              \* the updater passed: what it does to a document
  ucPc,                 \* the position of updateCollection
  chunkIdx,             \* idx, the index of the next page
  docs,                 \* the page fetched
  settled,              \* the positions of docs whose updater has resolved
  newDocs,              \* what Promise.all resolved with
  docPos,               \* the position of the write-back loop in newDocs
  ucError,              \* what updateCollection rejects with
  fetches,              \* the pages fetched so far: index and size
  updaterCalls,         \* the _id of the documents passed to the updater
  writeBacks,           \* the _id of the documents written back
  \* two runs of main at once on one database (SpecRace)
  procs                 \* the position and the locals of each of them

vars ==
  <<requireDir, migrationCollection, pc, opts, allMigrations, migrationInfo,
    pendingMigrations, idx, error, connects, closes, ledger0, calls, done,
    writes, prev, args, applied, col, updater, ucPc, chunkIdx, docs,
    settled, newDocs, docPos, ucError, fetches, updaterCalls, writeBacks,
    procs>>

\* the variables of a call of updateCollection
paging ==
  <<col, updater, ucPc, chunkIdx, docs, settled, newDocs, docPos, ucError,
    fetches, updaterCalls, writeBacks>>

\* no call of updateCollection is modelled
NoPaging ==
  /\ col = <<>>
  /\ updater = "none"
  /\ ucPc = "idle"
  /\ chunkIdx = 0
  /\ docs = <<>>
  /\ settled = {}
  /\ newDocs = <<>>
  /\ docPos = 1
  /\ ucError = "none"
  /\ fetches = <<>>
  /\ updaterCalls = <<>>
  /\ writeBacks = <<>>

\* the variables of one run other than pc
locals ==
  <<opts, allMigrations, migrationInfo, pendingMigrations, idx, error>>

\* the record of what a run has done
history == <<connects, closes, ledger0, calls, done, writes>>

NoRun == [kind |-> "none", all |-> <<>>, ledger0 |-> {}, done |-> 0]

\* main has not been launched from the command line
NoArgs == [k \in {} |-> 0]

Init ==
  /\ requireDir = <<>>
  /\ migrationCollection = {}
  /\ pc = "idle"
  /\ opts = DEFAULT_OPTS
  /\ allMigrations = <<>>
  /\ migrationInfo = [migId |-> 0]
  /\ pendingMigrations = <<>>
  /\ idx = 1
  /\ error = "none"
  /\ connects = 0
  /\ closes = 0
  /\ ledger0 = {}
  /\ calls = <<>>
  /\ done = 0
  /\ writes = <<>>
  /\ prev = NoRun
  /\ args = NoArgs
  /\ applied = {}
  /\ NoPaging
  /\ procs = <<>>

\* ------------------------------------------------------------------------
\* main
\* ------------------------------------------------------------------------

\* a throw or a rejected await: main rejects with e and runs no further
Reject(e) ==
  /\ pc' = "rejected"
  /\ error' = e

\* main(opts) is called
Main(o) ==
  /\ pc = "idle"
  /\ opts' = Assign(DEFAULT_OPTS, o)
  /\ ledger0' = migrationCollection
  /\ pc' = "connect"
  /\ UNCHANGED <<requireDir, paging, procs, args, applied, migrationCollection, allMigrations,
                 migrationInfo, pendingMigrations, idx, error, connects,
                 closes, calls, done, writes, prev>>

\* await MongoClient.connect(...) resolves
Connect ==
  /\ pc = "connect"
  /\ connects' = connects + 1
  /\ pc' = "load"
  /\ UNCHANGED <<requireDir, paging, procs, args, applied, migrationCollection, locals, closes, ledger0,
                 calls, done, writes, prev>>

\* await MongoClient.connect(...) rejects
ConnectFails ==
  /\ pc = "connect"
  /\ Reject("connect")
  /\ UNCHANGED <<requireDir, paging, procs, args, applied, migrationCollection, opts, allMigrations,
                 migrationInfo, pendingMigrations, idx, history, prev>>

\* const allMigrations = loadMigrations(), r being what the call comes to
LoadMigrations(r) ==
  /\ pc = "load"
  /\ IF r.error # "none"
       THEN /\ Reject(r.error)
            /\ UNCHANGED allMigrations
       ELSE /\ allMigrations' = r.migrations
            /\ pc' = "findOne"
            /\ UNCHANGED error
  /\ UNCHANGED <<requireDir, paging, procs, args, applied, migrationCollection, opts, migrationInfo,
                 pendingMigrations, idx, history, prev>>

\* await migrationCollection.findOne(...) resolves, then _.defaults
FindOne ==
  /\ pc = "findOne"
  /\ migrationInfo' = Defaults(findOne(migrationCollection))
  /\ pc' = "pending"
  /\ UNCHANGED <<requireDir, paging, procs, args, applied, migrationCollection, opts, allMigrations,
                 pendingMigrations, idx, error, history, prev>>

\* await migrationCollection.findOne(...) rejects
FindOneFails ==
  /\ pc = "findOne"
  /\ Reject("findOne")
  /\ UNCHANGED <<requireDir, paging, procs, args, applied, migrationCollection, opts, allMigrations,
                 migrationInfo, pendingMigrations, idx, history, prev>>

\* a runner that makes sure the marker exists before it looks at the
\* direction: an invalid direction is then rejected after a write
DeterminePending_marksFirst ==
  /\ pc = "pending"
  /\ migrationCollection' = updateOne(migrationCollection, migrationInfo.migId)
  /\ IF opts.func = "up"
       THEN /\ pendingMigrations' = PendingUp(allMigrations, migrationInfo.migId)
            /\ pc' = "dryRun"
            /\ UNCHANGED error
     ELSE IF opts.func = "down"
       THEN /\ pendingMigrations' =
                 PendingDown(allMigrations, opts, migrationInfo.migId)
            /\ pc' = "dryRun"
            /\ UNCHANGED error
     ELSE /\ pc' = "rejected"
          /\ error' = "Invalid func"
          /\ UNCHANGED pendingMigrations
  /\ UNCHANGED <<requireDir, paging, procs, args, applied, opts, allMigrations, migrationInfo, idx,
                 history, prev>>

\* determine pending migrations
DeterminePending ==
  /\ pc = "pending"
  /\ IF opts.func = "up"
       THEN /\ pendingMigrations' = PendingUp(allMigrations, migrationInfo.migId)
            /\ pc' = "dryRun"
            /\ UNCHANGED error
     ELSE IF opts.func = "down"
       THEN /\ pendingMigrations' =
                 PendingDown(allMigrations, opts, migrationInfo.migId)
            /\ pc' = "dryRun"
            /\ UNCHANGED error
     ELSE /\ Reject("Invalid func")
          /\ UNCHANGED pendingMigrations
  /\ UNCHANGED <<requireDir, paging, procs, args, applied, migrationCollection, opts, allMigrations,
                 migrationInfo, idx, history, prev>>

\* a dry run that reports the pending set and then applies it all the same
DryRun_applies ==
  /\ pc = "dryRun"
  /\ opts.dryRun
  /\ pc' = IF Len(pendingMigrations) = 0 THEN "close" ELSE "transform"
  /\ UNCHANGED <<requireDir, paging, procs, args, applied, migrationCollection, locals, history, prev>>

\* if (_opts.dryRun): report the pending set and return await db.close()
DryRun ==
  /\ pc = "dryRun"
  /\ opts.dryRun
  /\ pc' = "close"
  /\ UNCHANGED <<requireDir, paging, procs, args, applied, migrationCollection, locals, history, prev>>

\* an empty run that records the version it has read before it returns
UpToDate_writes ==
  /\ pc = "dryRun"
  /\ ~opts.dryRun
  /\ Len(pendingMigrations) = 0
  /\ migrationCollection' = updateOne(migrationCollection, migrationInfo.migId)
  /\ pc' = "close"
  /\ UNCHANGED <<requireDir, paging, procs, args, applied, locals, history, prev>>

\* if (!pendingMigrations.length): return await db.close()
UpToDate ==
  /\ pc = "dryRun"
  /\ ~opts.dryRun
  /\ Len(pendingMigrations) = 0
  /\ pc' = "close"
  /\ UNCHANGED <<requireDir, paging, procs, args, applied, migrationCollection, locals, history, prev>>

\* the loop over pendingMigrations begins
Apply ==
  /\ pc = "dryRun"
  /\ ~opts.dryRun
  /\ Len(pendingMigrations) # 0
  /\ idx' = 1
  /\ pc' = "transform"
  /\ UNCHANGED <<requireDir, paging, procs, args, applied, migrationCollection, opts, allMigrations,
                 migrationInfo, pendingMigrations, error, history, prev>>

\* the direction of the loop body: `up` when _opts.func is 'up', `down`
\* in the else branch
Direction == IF opts.func = "up" THEN "up" ELSE "down"

\* a `down` branch that writes the id of the reverted migration itself
MigIdAfter_noDecrement(m) == m.id

\* the migId the loop body writes after the transform of m
MigIdAfter(m) == IF opts.func = "up" THEN m.id ELSE m.id - 1

\* a loop that does not await the transform: it goes on to the write while
\* the transform has not completed
Transform_notAwaited ==
  /\ pc = "transform"
  /\ calls' = Append(calls, [func |-> IF opts.func = "up" THEN "up" ELSE "down",
                             id |-> pendingMigrations[idx].id])
  /\ pc' = "updateOne"
  /\ UNCHANGED <<requireDir, paging, procs, args, applied, migrationCollection, locals, connects, closes,
                 ledger0, done, writes, prev>>

\* await m.up.bind(migrationCtx)() or await m.down.bind(migrationCtx)()
\* resolves
Transform ==
  /\ pc = "transform"
  /\ calls' = Append(calls, [func |-> Direction, id |-> pendingMigrations[idx].id])
  /\ done' = done + 1
  /\ pc' = "updateOne"
  /\ UNCHANGED <<requireDir, paging, procs, args, applied, migrationCollection, locals, connects, closes,
                 ledger0, writes, prev>>

\* a loop that records the migration although its transform has rejected
TransformFails_recordsAnyway ==
  /\ pc = "transform"
  /\ calls' = Append(calls, [func |-> IF opts.func = "up" THEN "up" ELSE "down",
                             id |-> pendingMigrations[idx].id])
  /\ migrationCollection' =
       updateOne(migrationCollection,
                 IF opts.func = "up" THEN pendingMigrations[idx].id
                                     ELSE pendingMigrations[idx].id - 1)
  /\ pc' = "rejected"
  /\ error' = "transform"
  /\ UNCHANGED <<requireDir, paging, procs, args, applied, opts, allMigrations, migrationInfo,
                 pendingMigrations, idx, connects, closes, ledger0, done,
                 writes, prev>>

\* the transform rejects
TransformFails ==
  /\ pc = "transform"
  /\ calls' = Append(calls, [func |-> Direction, id |-> pendingMigrations[idx].id])
  /\ Reject("transform")
  /\ UNCHANGED <<requireDir, paging, procs, args, applied, migrationCollection, opts, allMigrations,
                 migrationInfo, pendingMigrations, idx, connects, closes,
                 ledger0, done, writes, prev>>

\* await migrationCollection.updateOne(...) resolves; the loop goes on to
\* the next pending migration, or ends and main goes on to db.close()
UpdateOne ==
  /\ pc = "updateOne"
  /\ migrationCollection' =
       updateOne(migrationCollection, MigIdAfter(pendingMigrations[idx]))
  /\ writes' = Append(writes, MigIdAfter(pendingMigrations[idx]))
  /\ idx' = idx + 1
  /\ pc' = IF idx < Len(pendingMigrations) THEN "transform" ELSE "close"
  /\ UNCHANGED <<requireDir, paging, procs, args, applied, opts, allMigrations, migrationInfo,
                 pendingMigrations, error, connects, closes, ledger0, calls,
                 done, prev>>

\* await migrationCollection.updateOne(...) rejects
UpdateOneFails ==
  /\ pc = "updateOne"
  /\ Reject("updateOne")
  /\ UNCHANGED <<requireDir, paging, procs, args, applied, migrationCollection, opts, allMigrations,
                 migrationInfo, pendingMigrations, idx, history, prev>>

\* await db.close(), after which main resolves
Close ==
  /\ pc = "close"
  /\ closes' = closes + 1
  /\ pc' = "resolved"
  /\ UNCHANGED <<requireDir, paging, procs, args, applied, migrationCollection, locals, connects, ledger0,
                 calls, done, writes, prev>>

\* what the run that has just settled leaves for the next one to be
\* compared with
Summary ==
  IF pc = "resolved" /\ opts.func = "up" /\ ~opts.dryRun
    THEN [kind |-> "up", all |-> allMigrations, ledger0 |-> ledger0,
          done |-> done]
  ELSE IF pc = "rejected" /\ error = "transform" /\ opts.func = "up"
    THEN [kind |-> "up failed", all |-> allMigrations, ledger0 |-> ledger0,
          done |-> done]
  ELSE [kind |-> "other", all |-> <<>>, ledger0 |-> {}, done |-> 0]

\* the promise of main has settled and the caller has seen it: the locals
\* of the run are gone, the collection stays
Return ==
  /\ pc \in {"resolved", "rejected"}
  /\ prev' = Summary
  /\ pc' = "idle"
  /\ opts' = DEFAULT_OPTS
  /\ allMigrations' = <<>>
  /\ migrationInfo' = [migId |-> 0]
  /\ pendingMigrations' = <<>>
  /\ idx' = 1
  /\ error' = "none"
  /\ connects' = 0
  /\ closes' = 0
  /\ ledger0' = {}
  /\ calls' = <<>>
  /\ done' = 0
  /\ writes' = <<>>
  /\ args' = NoArgs
  /\ UNCHANGED <<requireDir, paging, procs, applied, migrationCollection>>

\* ------------------------------------------------------------------------
\* The command line
\* ------------------------------------------------------------------------

String(chars) == [t |-> "string", v |-> chars]

Boolean(b) == [t |-> "boolean", v |-> b]

\* what docopt returns for the usage of DOC: a command is true or false, a
\* flag without argument is true or false, a positional argument that the
\* pattern taken does not have is null
DocoptArgs(up, version, dryRun) ==
  ("up" :> up) @@ ("down" :> ~up)
    @@ ("<host>" :> "localhost") @@ ("<port>" :> "27017") @@ ("<db>" :> "test")
    @@ ("<version>" :> version) @@ ("--dry-run" :> Boolean(dryRun))

\* the <version> arguments of the model
VersionArgs == {<<"0">>, <<"1">>, <<"2">>}

\* `migrate.js up ...` and `migrate.js down ... <version>`, with and
\* without --dry-run
ArgsInputs ==
  { DocoptArgs(TRUE, Null, f) : f \in BOOLEAN }
    \cup { DocoptArgs(FALSE, String(v), f) : v \in VersionArgs, f \in BOOLEAN }

\* parseInt(x, 10) of an argument: the leading digits of a string, NaN for
\* a string without any and for null
ParseIntArg(x) ==
  IF x.t = "string" /\ LeadingDigits(x.v) # <<>>
    THEN Number(ParseInt(LeadingDigits(x.v)))
    ELSE NaN

\* x != null: false of null and undefined only
NotEqualsNull(x) == x.t \notin {"null", "undefined"}

\* the object the entry point passes to main
CommandLineOpts(a) ==
  ("up" :> a["up"])
    @@ ("version" :> ParseIntArg(a["<version>"]))
    @@ ("host" :> a["<host>"]) @@ ("port" :> a["<port>"])
    @@ ("database" :> a["<db>"])
    @@ ("dryRun" :> NotEqualsNull(a["--dry-run"]))

\* the module is launched on its own: main is called with the options made
\* of the arguments
CommandLine(a) ==
  /\ pc = "idle"
  /\ args' = a
  /\ opts' = Assign(DEFAULT_OPTS, CommandLineOpts(a))
  /\ ledger0' = migrationCollection
  /\ pc' = "connect"
  /\ UNCHANGED <<requireDir, paging, procs, applied, migrationCollection, allMigrations,
                 migrationInfo, pendingMigrations, idx, error, connects,
                 closes, calls, done, writes, prev>>

Next ==
  \/ \E o \in OptsInputs : Main(o)
  \/ \E a \in ArgsInputs : CommandLine(a)
  \/ Connect
  \/ ConnectFails
  \/ \E r \in LoadResults : LoadMigrations(r)
  \/ FindOne
  \/ FindOneFails
  \/ DeterminePending
  \/ DryRun
  \/ UpToDate
  \/ Apply
  \/ Transform
  \/ TransformFails
  \/ UpdateOne
  \/ UpdateOneFails
  \/ Close
  \/ Return

Spec == Init /\ [][Next]_vars

\* ------------------------------------------------------------------------
\* loadMigrations on its own: the directory is drawn first, then loaded
\* ------------------------------------------------------------------------

InitLoad ==
  /\ requireDir \in Dirs
  /\ migrationCollection = {}
  /\ pc = "load"
  /\ opts = DEFAULT_OPTS
  /\ allMigrations = <<>>
  /\ migrationInfo = [migId |-> 0]
  /\ pendingMigrations = <<>>
  /\ idx = 1
  /\ error = "none"
  /\ connects = 1
  /\ closes = 0
  /\ ledger0 = {}
  /\ calls = <<>>
  /\ done = 0
  /\ writes = <<>>
  /\ prev = NoRun
  /\ args = NoArgs
  /\ applied = {}
  /\ NoPaging
  /\ procs = <<>>

NextLoad == LoadMigrations(loadMigrations(requireDir))

SpecLoad == InitLoad /\ [][NextLoad]_vars

\* ------------------------------------------------------------------------
\* The runs that apply, with the record of the migrations applied so far
\* ------------------------------------------------------------------------

\* Transform, and the id of an `up` that has completed is recorded
TransformApplied ==
  /\ pc = "transform"
  /\ calls' = Append(calls, [func |-> Direction, id |-> pendingMigrations[idx].id])
  /\ done' = done + 1
  /\ applied' = IF Direction = "up"
                  THEN applied \cup {pendingMigrations[idx].id}
                  ELSE applied
  /\ pc' = "updateOne"
  /\ UNCHANGED <<requireDir, paging, procs, args, migrationCollection, locals, connects,
                 closes, ledger0, writes, prev>>

\* the options of a programmatic run that is no dry run, in either
\* direction, the target of `down` being a number
ApplyingInputs ==
  [func : {"up"}]
    \cup [func : {"down"},
          version : {Number(n) : n \in MinVersion..MaxVersion}]

NextApplied ==
  \/ \E o \in ApplyingInputs : Main(o)
  \/ Connect
  \/ \E r \in LoadResults : LoadMigrations(r)
  \/ FindOne
  \/ DeterminePending
  \/ UpToDate
  \/ Apply
  \/ TransformApplied
  \/ TransformFails
  \/ UpdateOne
  \/ Close
  \/ Return

SpecApplied == Init /\ [][NextApplied]_vars

\* ------------------------------------------------------------------------
\* migrationCtx.updateCollection(collection, updater)
\* ------------------------------------------------------------------------

\* the variables of main
runner ==
  <<requireDir, migrationCollection, pc, opts, allMigrations, migrationInfo,
    pendingMigrations, idx, error, connects, closes, ledger0, calls, done,
    writes, prev, args, applied, procs>>

\* a collection of n documents with the _id 1..n, in natural order
Collection(n) == [i \in 1..n |-> [_id |-> i, v |-> 0]]

\* the updaters of the model: "touch" returns the document changed and with
\* its _id, as the updater of the readme does; "rekey" returns it with an
\* _id that no document has
Updaters == {"touch", "rekey"}

Updated(u, doc) ==
  IF u = "touch"
    THEN [_id |-> doc._id, v |-> doc.v + 1]
    ELSE [_id |-> 0 - doc._id, v |-> doc.v + 1]

\* a cursor that ignores limit(chunkSize)
SkipLimit_noLimit(c, skip, limit) == SubSeq(c, skip + 1, Len(c))

\* col.find({}).skip(skip).limit(limit).toArray(): the documents after the
\* first `skip`, `limit` of them at most, in natural order; a replacement by
\* _id leaves a document at its place in that order
SkipLimit(c, skip, limit) ==
  SubSeq(c, skip + 1, IF skip + limit < Len(c) THEN skip + limit ELSE Len(c))

\* an updateOne whose filter matches whatever document comes first
colUpdateOne_first(c, doc) ==
  [i \in 1..Len(c) |-> IF i = 1 THEN doc ELSE c[i]]

\* col.updateOne({ _id: doc._id }, doc): the document with that _id is
\* replaced by doc; without upsert nothing happens when there is none
colUpdateOne(c, doc) ==
  [i \in 1..Len(c) |-> IF c[i]._id = doc._id THEN doc ELSE c[i]]

\* updateCollection has been called and has issued the find of page 0
InitUpdate ==
  /\ requireDir = <<>>
  /\ migrationCollection = {}
  /\ pc = "idle"
  /\ opts = DEFAULT_OPTS
  /\ allMigrations = <<>>
  /\ migrationInfo = [migId |-> 0]
  /\ pendingMigrations = <<>>
  /\ idx = 1
  /\ error = "none"
  /\ connects = 0
  /\ closes = 0
  /\ ledger0 = {}
  /\ calls = <<>>
  /\ done = 0
  /\ writes = <<>>
  /\ prev = NoRun
  /\ args = NoArgs
  /\ applied = {}
  /\ col \in {Collection(n) : n \in 0..MaxDocs}
  /\ updater \in Updaters
  /\ ucPc = "find"
  /\ chunkIdx = 0
  /\ docs = <<>>
  /\ settled = {}
  /\ newDocs = <<>>
  /\ docPos = 1
  /\ ucError = "none"
  /\ fetches = <<>>
  /\ updaterCalls = <<>>
  /\ writeBacks = <<>>
  /\ procs = <<>>

\* await col.find({}).skip(idx++ * chunkSize).limit(chunkSize).toArray()
\* resolves
Find ==
  /\ ucPc = "find"
  /\ docs' = SkipLimit(col, chunkIdx * chunkSize, chunkSize)
  /\ chunkIdx' = chunkIdx + 1
  /\ fetches' = Append(fetches, [index |-> chunkIdx, size |-> Len(docs')])
  /\ ucPc' = "fetched"
  /\ UNCHANGED <<runner, col, updater, settled, newDocs, docPos, ucError,
                 updaterCalls, writeBacks>>

\* the find rejects
FindFails ==
  /\ ucPc = "find"
  /\ ucPc' = "rejected"
  /\ ucError' = "find"
  /\ UNCHANGED <<runner, col, updater, chunkIdx, docs, settled, newDocs,
                 docPos, fetches, updaterCalls, writeBacks>>

\* if (_.isEmpty(docs)) break
Break ==
  /\ ucPc = "fetched"
  /\ docs = <<>>
  /\ ucPc' = "resolved"
  /\ UNCHANGED <<runner, col, updater, chunkIdx, docs, settled, newDocs,
                 docPos, ucError, fetches, updaterCalls, writeBacks>>

\* _.map(docs, doc => updater(doc)): the updater is called on every
\* document of the page, in order, and Promise.all awaits the results
MapUpdater ==
  /\ ucPc = "fetched"
  /\ docs # <<>>
  /\ updaterCalls' = updaterCalls \o [i \in 1..Len(docs) |-> docs[i]._id]
  /\ settled' = {}
  /\ ucPc' = "updater"
  /\ UNCHANGED <<runner, col, updater, chunkIdx, docs, newDocs, docPos,
                 ucError, fetches, writeBacks>>

\* the updater of the i-th document of the page resolves
UpdaterResolves(i) ==
  /\ ucPc = "updater"
  /\ i \in (1..Len(docs)) \ settled
  /\ settled' = settled \cup {i}
  /\ UNCHANGED <<runner, col, updater, ucPc, chunkIdx, docs, newDocs, docPos,
                 ucError, fetches, updaterCalls, writeBacks>>

\* the updater of the i-th document of the page rejects, and so does
\* Promise.all at once
UpdaterRejects(i) ==
  /\ ucPc = "updater"
  /\ i \in (1..Len(docs)) \ settled
  /\ ucPc' = "rejected"
  /\ ucError' = "updater"
  /\ UNCHANGED <<runner, col, updater, chunkIdx, docs, settled, newDocs,
                 docPos, fetches, updaterCalls, writeBacks>>

\* the results are taken without waiting for the updaters to complete
PromiseAll_notAwaited ==
  /\ ucPc = "updater"
  /\ newDocs' = [i \in 1..Len(docs) |-> Updated(updater, docs[i])]
  /\ docPos' = 1
  /\ ucPc' = "write"
  /\ UNCHANGED <<runner, col, updater, chunkIdx, docs, settled, ucError,
                 fetches, updaterCalls, writeBacks>>

\* await Promise.all(...) resolves with the results, in the order of docs
PromiseAll ==
  /\ ucPc = "updater"
  /\ settled = 1..Len(docs)
  /\ newDocs' = [i \in 1..Len(docs) |-> Updated(updater, docs[i])]
  /\ docPos' = 1
  /\ ucPc' = "write"
  /\ UNCHANGED <<runner, col, updater, chunkIdx, docs, settled, ucError,
                 fetches, updaterCalls, writeBacks>>

\* await col.updateOne({ _id: doc._id }, doc) resolves for the next doc of
\* newDocs; after the last one the loop fetches the next page
WriteBack ==
  /\ ucPc = "write"
  /\ col' = colUpdateOne(col, newDocs[docPos])
  /\ writeBacks' = Append(writeBacks, newDocs[docPos]._id)
  /\ docPos' = docPos + 1
  /\ ucPc' = IF docPos < Len(newDocs) THEN "write" ELSE "find"
  /\ UNCHANGED <<runner, updater, chunkIdx, docs, settled, newDocs, ucError,
                 fetches, updaterCalls>>

\* the updateOne of a write-back rejects
WriteBackFails ==
  /\ ucPc = "write"
  /\ ucPc' = "rejected"
  /\ ucError' = "updateOne"
  /\ UNCHANGED <<runner, col, updater, chunkIdx, docs, settled, newDocs,
                 docPos, fetches, updaterCalls, writeBacks>>

NextUpdate ==
  \/ Find
  \/ FindFails
  \/ Break
  \/ MapUpdater
  \/ \E i \in 1..chunkSize : UpdaterResolves(i)
  \/ \E i \in 1..chunkSize : UpdaterRejects(i)
  \/ PromiseAll
  \/ WriteBack
  \/ WriteBackFails

SpecUpdate == InitUpdate /\ [][NextUpdate]_vars

\* ------------------------------------------------------------------------
\* Two runs of main({}) at once against the same database
\* ------------------------------------------------------------------------

Procs == {1, 2}

\* the variables of the single run and of updateCollection, which stay as
\* they are while the two runs go
single ==
  <<requireDir, pc, opts, migrationInfo, pendingMigrations, idx, error,
    connects, closes, ledger0, calls, done, prev, args, applied, paging>>

\* a run that has not started
NoProc ==
  [pc |-> "idle", migrationInfo |-> [migId |-> 0], pendingMigrations |-> <<>>,
   idx |-> 1, calls |-> <<>>]

\* the directory that both runs load, as loadMigrations returns it, and the
\* marker in the database; opts is _opts of main({}), func 'up' and no dry
\* run, in both runs
InitRace ==
  /\ requireDir = <<>>
  /\ migrationCollection \in {{}} \cup { {[_id |-> "default", migId |-> n]} : n \in 0..MaxVersion }
  /\ pc = "idle"
  /\ opts = DEFAULT_OPTS
  /\ allMigrations \in { r.migrations : r \in { l \in LoadResults : l.error = "none" } }
  /\ migrationInfo = [migId |-> 0]
  /\ pendingMigrations = <<>>
  /\ idx = 1
  /\ error = "none"
  /\ connects = 0
  /\ closes = 0
  /\ ledger0 = {}
  /\ calls = <<>>
  /\ done = 0
  /\ writes = <<>>
  /\ prev = NoRun
  /\ args = NoArgs
  /\ applied = {}
  /\ NoPaging
  /\ procs = [r \in Procs |-> NoProc]

\* run r connects and loads the migrations
P_Main(r) ==
  /\ procs[r].pc = "idle"
  /\ procs' = [procs EXCEPT ![r].pc = "findOne"]
  /\ UNCHANGED <<single, migrationCollection, allMigrations, writes>>

\* run r reads the marker
P_FindOne(r) ==
  /\ procs[r].pc = "findOne"
  /\ procs' = [procs EXCEPT ![r].migrationInfo = Defaults(findOne(migrationCollection)),
                            ![r].pc = "pending"]
  /\ UNCHANGED <<single, migrationCollection, allMigrations, writes>>

\* run r determines its pending migrations from what it has read, and goes
\* to the loop, or to db.close() when there is none
P_DeterminePending(r) ==
  /\ procs[r].pc = "pending"
  /\ LET pending == PendingUp(allMigrations, procs[r].migrationInfo.migId)
     IN  procs' = [procs EXCEPT ![r].pendingMigrations = pending,
                               ![r].idx = 1,
                               ![r].pc = IF Len(pending) = 0
                                           THEN "close" ELSE "transform"]
  /\ UNCHANGED <<single, migrationCollection, allMigrations, writes>>

\* await m.up.bind(migrationCtx)() resolves in run r
P_Transform(r) ==
  /\ procs[r].pc = "transform"
  /\ procs' = [procs EXCEPT ![r].calls =
                              Append(@, procs[r].pendingMigrations[procs[r].idx].id),
                            ![r].pc = "updateOne"]
  /\ UNCHANGED <<single, migrationCollection, allMigrations, writes>>

\* the transform rejects in run r
P_TransformFails(r) ==
  /\ procs[r].pc = "transform"
  /\ procs' = [procs EXCEPT ![r].pc = "rejected"]
  /\ UNCHANGED <<single, migrationCollection, allMigrations, writes>>

\* a write that leaves a marker that is ahead of it as it is
P_UpdateOne_ifGreater(r) ==
  /\ procs[r].pc = "updateOne"
  /\ LET m == procs[r].pendingMigrations[procs[r].idx]
         current == Defaults(findOne(migrationCollection)).migId
     IN  /\ migrationCollection' =
              IF MigIdAfter(m) > current
                THEN updateOne(migrationCollection, MigIdAfter(m))
                ELSE migrationCollection
         /\ writes' = Append(writes, MigIdAfter(m))
  /\ procs' = [procs EXCEPT ![r].idx = @ + 1,
                            ![r].pc = IF procs[r].idx < Len(procs[r].pendingMigrations)
                                        THEN "transform" ELSE "close"]
  /\ UNCHANGED <<single, allMigrations>>

\* run r writes the id of the migration it has applied as the marker
P_UpdateOne(r) ==
  /\ procs[r].pc = "updateOne"
  /\ LET m == procs[r].pendingMigrations[procs[r].idx]
     IN  /\ migrationCollection' = updateOne(migrationCollection, MigIdAfter(m))
         /\ writes' = Append(writes, MigIdAfter(m))
  /\ procs' = [procs EXCEPT ![r].idx = @ + 1,
                            ![r].pc = IF procs[r].idx < Len(procs[r].pendingMigrations)
                                        THEN "transform" ELSE "close"]
  /\ UNCHANGED <<single, allMigrations>>

\* await db.close() in run r
P_Close(r) ==
  /\ procs[r].pc = "close"
  /\ procs' = [procs EXCEPT ![r].pc = "resolved"]
  /\ UNCHANGED <<single, migrationCollection, allMigrations, writes>>

NextRace ==
  \E r \in Procs :
    \/ P_Main(r)
    \/ P_FindOne(r)
    \/ P_DeterminePending(r)
    \/ P_Transform(r)
    \/ P_TransformFails(r)
    \/ P_UpdateOne(r)
    \/ P_Close(r)

SpecRace == InitRace /\ [][NextRace]_vars

\* ------------------------------------------------------------------------
\* Vocabulary of the properties
\* ------------------------------------------------------------------------

\* the value of the marker of a collection, 0 when there is none
LedgerValue(collection) ==
  IF \E d \in collection : d._id = "default"
    THEN (CHOOSE d \in collection : d._id = "default").migId
    ELSE 0

Marker(n) == {[_id |-> "default", migId |-> n]}

Ids(ms) == [i \in 1..Len(ms) |-> ms[i].id]

IdSet(ms) == {ms[i].id : i \in 1..Len(ms)}

StrictlyAscending(s) == \A i \in 1..(Len(s) - 1) : s[i] < s[i + 1]

StrictlyDescending(s) == \A i \in 1..(Len(s) - 1) : s[i] > s[i + 1]

\* the elements of a finite set of integers in ascending order
AscendingSeq(S) ==
  CHOOSE s \in [1..Cardinality(S) -> S] :
    \A i, j \in 1..Cardinality(S) : i < j => s[i] < s[j]

\* main has computed the pending set
PendingKnown ==
  \/ pc \in {"dryRun", "transform", "updateOne", "close", "resolved"}
  \/ pc = "rejected" /\ error \in {"transform", "updateOne"}

\* a run in direction d that applies (no dry run) has resolved
Succeeded(d) == pc = "resolved" /\ opts.func = d /\ ~opts.dryRun

LoadErrors ==
  {"TypeError", "duplicate id", "missing 'up' function",
   "missing 'down' function"}

\* ------------------------------------------------------------------------
\* Properties of the runner
\* ------------------------------------------------------------------------

\* the largest id of a non-empty loaded sequence
MaxId(ms) == CHOOSE n \in IdSet(ms) : \A k \in IdSet(ms) : k <= n

\* the transforms a resolved `up` run has invoked: `up` of exactly the
\* migrations with an id above V, the marker of the beginning of the run,
\* each once and in ascending order
UpCallsAbove(V) ==
  /\ \A i \in 1..Len(calls) : calls[i].func = "up"
  /\ StrictlyAscending(Ids(calls))
  /\ IdSet(calls) = {n \in IdSet(allMigrations) : n > V}
  /\ done = Len(calls)

\* C1, as stated: a resolved `up` run has invoked `up` of exactly the
\* migrations with an id above the marker V, each once and in ascending
\* order, and the marker ends at the largest loaded id.
C1_AsStated ==
  Succeeded("up") =>
    /\ UpCallsAbove(LedgerValue(ledger0))
    /\ allMigrations # <<>> =>
         LedgerValue(migrationCollection) = MaxId(allMigrations)

\* C1, amended: a resolved `up` run has invoked `up` of exactly the
\* migrations with an id above the marker V, each once and in ascending
\* order; the marker ends at the largest loaded id when some loaded id is
\* above V, and the collection is as it was when none is.
C1_UpRun ==
  Succeeded("up") =>
    LET V == LedgerValue(ledger0)
    IN  /\ UpCallsAbove(V)
        /\ IF \E n \in IdSet(allMigrations) : n > V
             THEN migrationCollection = Marker(MaxId(allMigrations))
             ELSE migrationCollection = ledger0

\* an `up` run from a marker of 1 or more that has applied two migrations
\* and left a loaded one alone
C1_Witness ==
  /\ Succeeded("up")
  /\ ledger0 # {}
  /\ LedgerValue(ledger0) >= 1
  /\ Len(calls) >= 2
  /\ \E n \in IdSet(allMigrations) : n <= LedgerValue(ledger0)

\* C2: with the loaded ids 1..N, a marker V in 1..N and a `down` run to the
\* target T in 0..V-1, the pending set is V, V-1, ..., T+1 in that order;
\* a resolved run has invoked `down` of each of them once in that order and
\* the marker ends at T.
C2_DownRun ==
  LET N == Len(allMigrations)
      V == LedgerValue(ledger0)
  IN  ( /\ PendingKnown
        /\ opts.func = "down"
        /\ N >= 1
        /\ Ids(allMigrations) = [i \in 1..N |-> i]
        /\ ledger0 = Marker(V)
        /\ V \in 1..N
        /\ opts.version.t = "number"
        /\ opts.version.v \in 0..(V - 1) )
      => LET T        == opts.version.v
             expected == [i \in 1..(V - T) |-> V - i + 1]
         IN  /\ Ids(pendingMigrations) = expected
             /\ Succeeded("down") =>
                  /\ Ids(calls) = expected
                  /\ \A i \in 1..Len(calls) : calls[i].func = "down"
                  /\ done = Len(calls)
                  /\ migrationCollection = Marker(T)

\* the marker is 3, the target 1: 3 then 2 have been reverted
C2_Witness ==
  /\ Succeeded("down")
  /\ Ids(allMigrations) = <<1, 2, 3>>
  /\ ledger0 = Marker(3)
  /\ opts.version = Number(1)
  /\ Ids(calls) = <<3, 2>>
  /\ migrationCollection = Marker(1)

\* C3, as stated: an `up` run from an absent marker that resolves, followed
\* by a `down` run to the target 0 with the same loaded set that resolves,
\* has invoked `down` of every loaded migration once, in strictly
\* descending order of id, and leaves the marker at 0.
C3_AsStated ==
  ( /\ prev.kind = "up"
    /\ prev.ledger0 = {}
    /\ Succeeded("down")
    /\ opts.version = Number(0)
    /\ allMigrations = prev.all )
  => /\ \A i \in 1..Len(calls) : calls[i].func = "down"
     /\ StrictlyDescending(Ids(calls))
     /\ IdSet(calls) = IdSet(allMigrations)
     /\ done = Len(calls)
     /\ LedgerValue(migrationCollection) = 0

\* C4: an `up` run that follows a resolved `up` run and loads the same set
\* computes an empty pending set, invokes no transform and writes nothing;
\* and any run that is no dry run and whose pending set is empty goes to
\* db.close() and resolves with no transform invoked and nothing written.
C4_UpTwice ==
  /\ ( /\ prev.kind = "up"
       /\ PendingKnown
       /\ opts.func = "up"
       /\ allMigrations = prev.all )
     => /\ pendingMigrations = <<>>
        /\ calls = <<>>
        /\ writes = <<>>
        /\ migrationCollection = ledger0
  /\ (PendingKnown /\ ~opts.dryRun /\ pendingMigrations = <<>>)
     => /\ pc \in {"dryRun", "close", "resolved"}
        /\ calls = <<>>
        /\ writes = <<>>
        /\ migrationCollection = ledger0

\* the second of two `up` runs over the same set has resolved, the first
\* having applied a migration
C4_Witness ==
  /\ prev.kind = "up"
  /\ prev.done >= 1
  /\ Succeeded("up")
  /\ allMigrations = prev.all

\* C5: a dry run, in either direction, invokes no transform and writes
\* nothing: the collection stays as it was when the run began, marker
\* absent included.
C5_DryRun ==
  (pc # "idle" /\ opts.dryRun)
  => /\ pc \notin {"transform", "updateOne"}
     /\ calls = <<>>
     /\ done = 0
     /\ writes = <<>>
     /\ migrationCollection = ledger0

\* a dry run with a marker and a pending set that is not empty has resolved
C5_Witness ==
  /\ pc = "resolved"
  /\ opts.dryRun
  /\ Len(pendingMigrations) >= 1
  /\ ledger0 # {}

\* C6, as stated: a run that has opened the connection has closed it
\* exactly once when it settles, whether it resolves or rejects.
C6_AsStated ==
  (pc \in {"resolved", "rejected"} /\ connects = 1) => closes = 1

\* C7: when the transform of the k-th pending migration rejects, main
\* rejects; the transforms invoked are those of the first k pending
\* migrations, the writes are those of the first k-1, the marker holds the
\* last of these writes (the collection is as the run found it when k = 1),
\* and the run writes nothing afterwards.
C7_TransformFailure ==
  /\ [](  (pc = "rejected" /\ error = "transform")
          => LET k == Len(calls)
             IN  /\ k \in 1..Len(pendingMigrations)
                 /\ \A i \in 1..k :
                      calls[i] = [func |-> opts.func, id |-> pendingMigrations[i].id]
                 /\ done = k - 1
                 /\ writes = [i \in 1..(k - 1) |->
                                IF opts.func = "up"
                                  THEN pendingMigrations[i].id
                                  ELSE pendingMigrations[i].id - 1]
                 /\ migrationCollection =
                      IF k = 1 THEN ledger0 ELSE Marker(writes[k - 1]) )
  /\ [][ pc = "rejected" =>
           (pc' = "idle" /\ migrationCollection' = migrationCollection) ]_vars

\* the transform of the second pending migration has rejected
C7_Witness ==
  /\ pc = "rejected"
  /\ error = "transform"
  /\ Len(calls) = 2
  /\ Len(pendingMigrations) = 3

\* C8: after an `up` run that rejected in the transform of m, an `up` run
\* with the same loaded set has a pending set that begins with m and is the
\* pending set of the failed run without the migrations that completed in
\* it; when the second run resolves it has invoked the transform of each of
\* them once, so that over the two runs every migration pending at first
\* has completed once.
C8_Resume ==
  ( /\ prev.kind = "up failed"
    /\ PendingKnown
    /\ opts.func = "up"
    /\ allMigrations = prev.all )
  => LET first == AscendingSeq({n \in IdSet(prev.all) :
                                  n > LedgerValue(prev.ledger0)})
         rest  == SubSeq(first, prev.done + 1, Len(first))
     IN  /\ prev.done < Len(first)
         /\ Ids(pendingMigrations) = rest
         /\ Succeeded("up") =>
              /\ Ids(calls) = rest
              /\ \A i \in 1..Len(calls) : calls[i].func = "up"
              /\ done = Len(calls)

\* the run after a failure in the second of three migrations has resolved
C8_Witness ==
  /\ prev.kind = "up failed"
  /\ prev.done = 1
  /\ Len(prev.all) = 3
  /\ Succeeded("up")
  /\ allMigrations = prev.all
  /\ Len(calls) = 2

\* C9: whatever the directory and its enumeration order, loadMigrations
\* throws or returns a sequence strictly ascending by id; it throws when two
\* names of the directory have the same numeric id.
C9_LoadSorted ==
  pc # "load"
  => /\ \/ pc = "rejected" /\ error \in LoadErrors
        \/ /\ pc = "findOne"
           /\ error = "none"
           /\ StrictlyAscending(Ids(allMigrations))
     /\ ( \E i, j \in 1..Len(requireDir) :
            /\ i # j
            /\ extractMigId(requireDir[i].name).error = "none"
            /\ extractMigId(requireDir[j].name).error = "none"
            /\ extractMigId(requireDir[i].name).id
                 = extractMigId(requireDir[j].name).id )
        => pc = "rejected"

\* three units enumerated in descending order of id have been loaded
C9_Witness ==
  /\ pc = "findOne"
  /\ Len(requireDir) = 3
  /\ Len(allMigrations) = 3
  /\ extractMigId(requireDir[1].name).id > extractMigId(requireDir[2].name).id
  /\ extractMigId(requireDir[2].name).id > extractMigId(requireDir[3].name).id

\* C10: a run rejected by a load error or by an invalid direction has
\* invoked no transform and written nothing.
C10_AbortBeforeMutation ==
  (pc = "rejected" /\ error \in LoadErrors \cup {"Invalid func"})
  => /\ calls = <<>>
     /\ done = 0
     /\ writes = <<>>
     /\ migrationCollection = ledger0

\* an invalid direction has been rejected with migrations loaded
C10_Witness ==
  /\ pc = "rejected"
  /\ error = "Invalid func"
  /\ allMigrations # <<>>

\* C13, as stated: the marker always holds a non-negative migId.
C13_AsStated == \A d \in migrationCollection : d.migId >= 0

\* C16: the transform of a pending migration is in flight only when the
\* transforms of all the earlier ones have completed and their writes are
\* done; the transforms are invoked in the order of the pending set; the
\* i-th write is the write of the i-th pending migration and is made only
\* after its transform has completed.
C16_OneAtATime ==
  /\ [](  /\ Len(writes) <= done
          /\ pc = "transform" =>
               /\ idx \in 1..Len(pendingMigrations)
               /\ Len(calls) = idx - 1
               /\ done = idx - 1
               /\ Len(writes) = idx - 1
          /\ pc = "updateOne" =>
               /\ Len(calls) = idx
               /\ done = idx
               /\ Len(writes) = idx - 1
          /\ \A i \in 1..Len(calls) : calls[i].id = pendingMigrations[i].id
          /\ \A i \in 1..Len(writes) :
               writes[i] = IF opts.func = "up"
                             THEN pendingMigrations[i].id
                             ELSE pendingMigrations[i].id - 1 )
  /\ [][ (migrationCollection' # migrationCollection \/ Len(writes') > Len(writes))
           => /\ pc = "updateOne"
              /\ done = Len(writes) + 1
              /\ Len(writes') = Len(writes) + 1 ]_vars

\* the transform of the third pending migration is in flight
C16_Witness ==
  /\ pc = "transform"
  /\ idx = 3
  /\ Len(writes) = 2

\* C19, as stated: a `down` run whose options have no version (the default
\* null is in _opts) has an empty pending set, invokes no transform and
\* writes nothing.
C19_AsStated ==
  (PendingKnown /\ opts.func = "down" /\ opts.version = Null)
  => /\ pendingMigrations = <<>>
     /\ calls = <<>>
     /\ writes = <<>>

\* main has been launched from the command line with the command `down`
LaunchedDown == "down" \in DOMAIN args /\ args["down"]

\* main has been launched from the command line without --dry-run
LaunchedWithoutDryRun ==
  "--dry-run" \in DOMAIN args /\ ~args["--dry-run"].v

\* C14, as stated: launched with the command `down` and a version, main
\* runs in direction `down`, and the pending set is the migrations with an
\* id in (version, current] in descending order.
C14_AsStated ==
  (LaunchedDown /\ PendingKnown)
  => LET T == ParseIntArg(args["<version>"]).v
         V == LedgerValue(ledger0)
     IN  /\ opts.func = "down"
         /\ Ids(pendingMigrations) =
              Reverse(AscendingSeq({n \in IdSet(allMigrations) :
                                      n > T /\ n <= V}))

\* C15, as stated: launched without --dry-run, main runs with dryRun false,
\* and a run that resolves with a pending set that is not empty has invoked
\* transforms and written the marker.
C15_AsStated ==
  (LaunchedWithoutDryRun /\ pc # "idle")
  => /\ ~opts.dryRun
     /\ (pc = "resolved" /\ pendingMigrations # <<>>) =>
          (calls # <<>> /\ writes # <<>>)

\* C20, as stated: an `up` run that resolves on a database without marker
\* has invoked `up` of every loaded migration once, the migration 0
\* included; and a `down` transform is invoked only for a migration whose
\* `up` transform has completed at some time.
C20_AsStated ==
  /\ (Succeeded("up") /\ ledger0 = {})
     => /\ \A i \in 1..Len(calls) : calls[i].func = "up"
        /\ IdSet(calls) = IdSet(allMigrations)
        /\ Len(calls) = Len(allMigrations)
  /\ (pc = "transform" /\ opts.func = "down")
     => pendingMigrations[idx].id \in applied

\* ------------------------------------------------------------------------
\* updateCollection: pages, documents, order
\* ------------------------------------------------------------------------

\* ceil(n / chunkSize)
PageCount(n) == (n + chunkSize - 1) \div chunkSize

\* the size of page i (from 0) of n documents: chunkSize, ..., chunkSize, the
\* remainder, and nothing from page PageCount(n) on
PageSize(n, i) ==
  IF n - i * chunkSize >= chunkSize THEN chunkSize
  ELSE IF n - i * chunkSize > 0 THEN n - i * chunkSize
  ELSE 0

\* the fetches that returned documents
NonEmptyFetches == SelectSeq(fetches, LAMBDA f : f.size > 0)

\* how many times id occurs in a sequence of ids
Occurrences(ids, id) == Cardinality({i \in 1..Len(ids) : ids[i] = id})

\* the number of documents of the pages fetched before the current one
DocsBefore ==
  IF chunkIdx = 0 THEN 0
  ELSE IF (chunkIdx - 1) * chunkSize < Len(col) THEN (chunkIdx - 1) * chunkSize
  ELSE Len(col)

\* C11: for a collection of N documents and page size P, updateCollection
\* fetches its pages at ascending index 0, 1, ... with the sizes P, ..., P and
\* the remainder; when it terminates it has fetched exactly ceil(N/P) pages
\* of documents, and the fetch that ended it is the one after them, which
\* came back empty
C11_Pages ==
  /\ \A k \in 1..Len(fetches) :
       /\ fetches[k].index = k - 1
       /\ fetches[k].size = PageSize(Len(col), k - 1)
  /\ Len(NonEmptyFetches) <= PageCount(Len(col))
  /\ ucPc = "resolved" =>
       /\ Len(NonEmptyFetches) = PageCount(Len(col))
       /\ Len(fetches) = PageCount(Len(col)) + 1
       /\ fetches[Len(fetches)].size = 0

\* updateCollection has terminated on a collection with full pages and a
\* remainder page
C11_Witness ==
  /\ ucPc = "resolved"
  /\ Len(col) > chunkSize
  /\ Len(col) % chunkSize # 0
  /\ Len(NonEmptyFetches) = PageCount(Len(col))

\* C12: with an updater that preserves _id, no document is passed to the
\* updater or written back more than once, and when updateCollection
\* terminates every document has been passed to the updater exactly once and
\* written back exactly once, and the document stored under each _id is the
\* updater's result for it
C12_ExactlyOnce ==
  updater = "touch" =>
    /\ \A d \in 1..Len(col) :
         /\ Occurrences(updaterCalls, d) <= 1
         /\ Occurrences(writeBacks, d) <= 1
    /\ ucPc = "resolved" =>
         /\ Len(updaterCalls) = Len(col)
         /\ Len(writeBacks) = Len(col)
         /\ \A d \in 1..Len(col) :
              /\ Occurrences(updaterCalls, d) = 1
              /\ Occurrences(writeBacks, d) = 1
              /\ col[d] = Updated("touch", Collection(Len(col))[d])

\* updateCollection has terminated on a collection of several pages with an
\* updater that preserves _id, every document replaced
C12_Witness ==
  /\ ucPc = "resolved"
  /\ updater = "touch"
  /\ Len(col) > chunkSize
  /\ Len(writeBacks) = Len(col)
  /\ \A d \in 1..Len(col) : col[d].v = 1

\* C17: a write-back is issued only when the updater has completed for every
\* document of its page, write-backs are issued one at a time in the order
\* of the page, a page is fetched only when every document of the pages
\* before it has been through the updater and written back, and when the
\* updater fails no document of its page has been written back while the
\* documents of the earlier pages are written
C17_PageOrder ==
  /\ [](ucPc = "write" =>
          /\ settled = 1..Len(docs)
          /\ Len(updaterCalls) = DocsBefore + Len(docs)
          /\ Len(writeBacks) = DocsBefore + docPos - 1)
  /\ [](ucPc = "updater" => Len(writeBacks) = DocsBefore)
  /\ [][writeBacks' # writeBacks =>
          /\ settled = 1..Len(docs)
          /\ writeBacks' = Append(writeBacks, newDocs[docPos]._id)
          /\ fetches' = fetches]_vars
  /\ [][fetches' # fetches =>
          /\ Len(updaterCalls) = Len(writeBacks)
          /\ Len(writeBacks) =
               IF chunkIdx * chunkSize < Len(col)
                 THEN chunkIdx * chunkSize ELSE Len(col)]_vars
  /\ []((ucPc = "rejected" /\ ucError = "updater") =>
          /\ Len(writeBacks) = DocsBefore
          /\ \A i \in 1..Len(docs) : Occurrences(writeBacks, docs[i]._id) = 0
          /\ updater = "touch" =>
               /\ \A d \in 1..DocsBefore : Occurrences(writeBacks, d) = 1
               /\ \A d \in 1..Len(col) :
                    col[d].v = IF d <= DocsBefore THEN 1 ELSE 0)

\* the updater has failed on the second page after one of its documents had
\* completed: the first page is written, the second is not
C17_Witness ==
  /\ ucPc = "rejected"
  /\ ucError = "updater"
  /\ updater = "touch"
  /\ chunkIdx = 2
  /\ settled # {}
  /\ Len(writeBacks) = chunkSize
  /\ col[chunkSize].v = 1
  /\ col[chunkSize + 1].v = 0

\* ------------------------------------------------------------------------
\* Concurrent runs
\* ------------------------------------------------------------------------

\* run r has read the marker
HasRead(r) == procs[r].pc \notin {"idle", "findOne"}

\* run r has determined its pending migrations
HasPending(r) == procs[r].pc \notin {"idle", "findOne", "pending"}

\* C18: nothing keeps two concurrent 'up' runs apart: a run that has read
\* the ledger value V applies exactly the migrations above V, whatever the
\* other run does, so two runs that read the same value have the same
\* pending set and, when both resolve, each has invoked the up transform of
\* each of these migrations; and every ledger write stores the id of the
\* writer's migration, whatever the ledger holds (last write wins)
C18_Unguarded ==
  /\ [](\A r \in Procs :
          /\ HasPending(r) =>
               procs[r].pendingMigrations =
                 PendingUp(allMigrations, procs[r].migrationInfo.migId)
          /\ procs[r].pc = "resolved" =>
               procs[r].calls = Ids(procs[r].pendingMigrations))
  /\ []((HasPending(1) /\ HasPending(2)
           /\ procs[1].migrationInfo = procs[2].migrationInfo) =>
          procs[1].pendingMigrations = procs[2].pendingMigrations)
  /\ [][\A r \in Procs :
          procs'[r].idx # procs[r].idx /\ procs[r].pc = "updateOne" =>
            /\ LedgerValue(migrationCollection') =
                 procs[r].pendingMigrations[procs[r].idx].id
            /\ writes' = Append(writes, procs[r].pendingMigrations[procs[r].idx].id)]_vars

\* both runs have read the same ledger value and have resolved, a migration
\* has been applied by both, and a write has set the ledger below what it was
C18_Witness ==
  /\ procs[1].pc = "resolved"
  /\ procs[2].pc = "resolved"
  /\ procs[1].migrationInfo = procs[2].migrationInfo
  /\ \E i \in 1..Len(procs[1].calls), j \in 1..Len(procs[2].calls) :
       procs[1].calls[i] = procs[2].calls[j]
  /\ \E k \in 1..(Len(writes) - 1) : writes[k + 1] < writes[k]
====
